---- MODULE Spec2Model ----
(***************************************************************************)
(* Model of the limit order book matching engine (class Orderbook,         *)
(* src/src/orderbook.cpp with the declarations of src/include/*.hpp).      *)
(*                                                                         *)
(* Reading of the source.  m_bids and m_asks are std::vector<PriceLevel>   *)
(* (orderbook.hpp:120-121): a level is a vector of order pointers plus a   *)
(* head cursor.  Every order pointer sits in exactly one level, so the     *)
(* record it points to is written inline in the level.  add_order builds   *)
(* the record itself (orderbook.cpp:29) and reads its id back (line 30);   *)
(* the id is taken to come from generate_unique_id (order.hpp:15-18), the  *)
(* only id source the translation unit can reach: orderbook.cpp never      *)
(* calls OrderPool::acquire or OrderPool::release.                         *)
(*                                                                         *)
(* The price grid [MIN_PRICE_CENTS, MAX_PRICE_CENTS] is scaled down to     *)
(* 1..MaxTick.  total_value is a double that accumulates                   *)
(* (qty * price_cents) / 100.0; it is kept as the exact numerator over     *)
(* the denominator CentsPerUnit.                                           *)
(***************************************************************************)
EXTENDS Integers, Sequences, FiniteSets, TLC

\* ---------------------------------------------------------------- bounds
MaxTick == 3
MaxQty == 2
MaxOrders == 3

\* ------------------------------------------------------------- constants
MIN_PRICE_CENTS == 1
MAX_PRICE_CENTS == MaxTick
CentsPerUnit == 100
NoLimit == -1

Ticks == MIN_PRICE_CENTS..MAX_PRICE_CENTS
\* prices and quantities a caller can pass: in range, and just outside it
PriceInputs == (MIN_PRICE_CENTS - 1)..(MAX_PRICE_CENTS + 1)
QtyInputs == 0..MaxQty
IdInputs == 1..(MaxOrders + 1)
BookSides == {"bid", "ask"}
Sides == {"buy", "sell"}
OrderTypes == {"market", "limit"}

SetMax(S) == CHOOSE x \in S : \A y \in S : y <= x
SetMin(S) == CHOOSE x \in S : \A y \in S : x <= y

VARIABLES
  m_bids,            \* [Ticks -> PriceLevel]
  m_asks,            \* [Ticks -> PriceLevel]
  m_active_bids,     \* std::set<int>
  m_active_asks,     \* std::set<int>
  m_order_metadata,  \* id -> [side, price_cents]
  m_best_bid,
  m_best_ask,
  s_next_id,         \* the static counter of generate_unique_id
  m_order_pool,      \* OrderPool: slots, stack of free indices, id counter
  crashed,           \* the process died inside an operation
  call               \* the last public call, its arguments and what it returned

vars == <<m_bids, m_asks, m_active_bids, m_active_asks, m_order_metadata,
          m_best_bid, m_best_ask, s_next_id, m_order_pool, crashed, call>>

\* ------------------------------------------------------------ PriceLevel
EmptyLevel == [orders |-> <<>>, head |-> 0]

PriceLevel_empty(L) == L.head >= Len(L.orders)

\* mutant: the newest order is taken instead of the oldest
PriceLevel_front_newest(L) == L.orders[Len(L.orders)]

PriceLevel_front(L) == L.orders[L.head + 1]

PriceLevel_pop_front(L) ==
  IF ~PriceLevel_empty(L) THEN [L EXCEPT !.head = @ + 1] ELSE L

PriceLevel_push_back(L, order) == [L EXCEPT !.orders = Append(@, order)]

\* mutant: the erased slot is filled with the last order instead of closing the gap
PriceLevel_erase_swap(L, pos) ==
  IF pos < L.head + 1 THEN L
  ELSE [L EXCEPT !.orders =
          IF pos = Len(@) THEN SubSeq(@, 1, pos - 1)
          ELSE SubSeq(@, 1, pos - 1) \o <<@[Len(@)]>> \o SubSeq(@, pos + 1, Len(@) - 1)]

\* erase(iterator) with pos the 1-based position in the vector
PriceLevel_erase(L, pos) ==
  IF pos < L.head + 1 THEN L
  ELSE [L EXCEPT !.orders = SubSeq(@, 1, pos - 1) \o SubSeq(@, pos + 1, Len(@))]

\* the range begin()..end(): the orders from the head cursor on
PriceLevel_live(L) == SubSeq(L.orders, L.head + 1, Len(L.orders))

PriceLevel_size(L) == Len(L.orders) - L.head

\* ------------------------------------------------------------- OrderPool
\* the pool is scaled down from 1'000'000 slots to one slot per order the model can issue
PoolCapacity == MaxOrders

\* OrderPool(capacity): value-initialised slots, every index pushed on the free stack
OrderPool(capacity) ==
  [orders_ |-> [i \in 0..(capacity - 1) |->
                  [id |-> 0, price_cents |-> 0, quantity |-> 0, active |-> FALSE]],
   free_indices_ |-> [i \in 1..capacity |-> i - 1],
   next_id_ |-> 1]

OrderPool_available(pool) == Len(pool.free_indices_)

(* A handle is an Order*: nullptr, the address of slot idx of orders_, or   *)
(* the address of an Order record that lives outside the pool, whose active *)
(* member is what release reads through the pointer.                        *)
NullHandle == [kind |-> "null", idx |-> 0, active |-> FALSE]
SlotHandle(idx) == [kind |-> "slot", idx |-> idx, active |-> FALSE]
ForeignHandle(active) == [kind |-> "foreign", idx |-> 0, active |-> active]

\* order->active
HandleActive(pool, order) ==
  IF order.kind = "slot" THEN pool.orders_[order.idx].active ELSE order.active

\* acquire: nullptr when the free stack is empty, else the top index is popped and the slot filled in
OrderPool_acquire(pool, qty, price_cents) ==
  IF pool.free_indices_ = <<>> THEN [pool |-> pool, order |-> NullHandle]
  ELSE
    LET idx == pool.free_indices_[Len(pool.free_indices_)]
        id == pool.next_id_
    IN [pool |-> [orders_ |-> [pool.orders_ EXCEPT ![idx] =
                                 [id |-> id, price_cents |-> price_cents,
                                  quantity |-> qty, active |-> TRUE]],
                  free_indices_ |-> SubSeq(pool.free_indices_, 1,
                                           Len(pool.free_indices_) - 1),
                  next_id_ |-> pool.next_id_ + 1],
        order |-> SlotHandle(idx)]

(* release: returns at once for nullptr and for a record whose active is    *)
(* false; aborts for an active record outside [begin, end); else clears     *)
(* active and pushes the index.                                             *)
OrderPool_release(pool, order) ==
  IF order.kind = "null" \/ ~HandleActive(pool, order)
  THEN [pool |-> pool, aborted |-> FALSE]
  ELSE IF order.kind # "slot"
       THEN [pool |-> pool, aborted |-> TRUE]
       ELSE [pool |-> [pool EXCEPT !.orders_[order.idx].active = FALSE,
                                   !.free_indices_ = Append(@, order.idx)],
             aborted |-> FALSE]

\* ------------------------------------------------------ the engine state
Book ==
  [m_bids |-> m_bids, m_asks |-> m_asks,
   m_active_bids |-> m_active_bids, m_active_asks |-> m_active_asks,
   m_order_metadata |-> m_order_metadata,
   m_best_bid |-> m_best_bid, m_best_ask |-> m_best_ask,
   s_next_id |-> s_next_id]

Install(B) ==
  /\ m_bids' = B.m_bids
  /\ m_asks' = B.m_asks
  /\ m_active_bids' = B.m_active_bids
  /\ m_active_asks' = B.m_active_asks
  /\ m_order_metadata' = B.m_order_metadata
  /\ m_best_bid' = B.m_best_bid
  /\ m_best_ask' = B.m_best_ask
  /\ s_next_id' = B.s_next_id
  /\ UNCHANGED m_order_pool     \* no operation of orderbook.cpp reaches the pool

MetaPut(md, id, side, price_cents) ==
  [i \in DOMAIN md \cup {id} |->
     IF i = id THEN [side |-> side, price_cents |-> price_cents] ELSE md[i]]

\* mutant: the registry entry is not erased
MetaErase_skipped(md, id) == md

MetaErase(md, id) == [i \in DOMAIN md \ {id} |-> md[i]]

\* mutant: the identifier is derived from the number of registered orders
generate_unique_id_reuse(B) == Cardinality(DOMAIN B.m_order_metadata) + 1

\* ++s_next_id
generate_unique_id(B) == B.s_next_id + 1

\* ------------------------------------------------------------- add_order
\* mutant: the cached best is overwritten by the tick of every order added
add_order_best_overwritten(B, qty, price_cents, side) ==
  IF price_cents < MIN_PRICE_CENTS \/ price_cents > MAX_PRICE_CENTS THEN B
  ELSE
    LET order_id == generate_unique_id(B)
        order == [id |-> order_id, quantity |-> qty, price_cents |-> price_cents]
        B1 == [B EXCEPT !.s_next_id = order_id]
        B2 == IF side = "bid"
              THEN [B1 EXCEPT
                      !.m_bids[price_cents] = PriceLevel_push_back(@, order),
                      !.m_active_bids = @ \cup {price_cents},
                      !.m_best_bid = price_cents]
              ELSE [B1 EXCEPT
                      !.m_asks[price_cents] = PriceLevel_push_back(@, order),
                      !.m_active_asks = @ \cup {price_cents},
                      !.m_best_ask = price_cents]
    IN [B2 EXCEPT !.m_order_metadata = MetaPut(@, order_id, side, price_cents)]

\* mutant: a price outside the grid is moved to the nearest tick instead of being refused
add_order_clamped(B, qty, price_cents, side) ==
  LET tick == IF price_cents < MIN_PRICE_CENTS THEN MIN_PRICE_CENTS
              ELSE IF price_cents > MAX_PRICE_CENTS THEN MAX_PRICE_CENTS
              ELSE price_cents
      order_id == generate_unique_id(B)
      order == [id |-> order_id, quantity |-> qty, price_cents |-> tick]
      B1 == [B EXCEPT !.s_next_id = order_id]
      B2 == IF side = "bid"
            THEN [B1 EXCEPT
                    !.m_bids[tick] = PriceLevel_push_back(@, order),
                    !.m_active_bids = @ \cup {tick},
                    !.m_best_bid = IF tick > @ THEN tick ELSE @]
            ELSE [B1 EXCEPT
                    !.m_asks[tick] = PriceLevel_push_back(@, order),
                    !.m_active_asks = @ \cup {tick},
                    !.m_best_ask = IF tick < @ THEN tick ELSE @]
  IN [B2 EXCEPT !.m_order_metadata = MetaPut(@, order_id, side, tick)]

add_order(B, qty, price_cents, side) ==
  IF price_cents < MIN_PRICE_CENTS \/ price_cents > MAX_PRICE_CENTS THEN B
  ELSE
    LET order_id == generate_unique_id(B)
        order == [id |-> order_id, quantity |-> qty, price_cents |-> price_cents]
        B1 == [B EXCEPT !.s_next_id = order_id]
        B2 == IF side = "bid"
              THEN [B1 EXCEPT
                      !.m_bids[price_cents] = PriceLevel_push_back(@, order),
                      !.m_active_bids = @ \cup {price_cents},
                      !.m_best_bid = IF price_cents > @ THEN price_cents ELSE @]
              ELSE [B1 EXCEPT
                      !.m_asks[price_cents] = PriceLevel_push_back(@, order),
                      !.m_active_asks = @ \cup {price_cents},
                      !.m_best_ask = IF price_cents < @ THEN price_cents ELSE @]
    IN [B2 EXCEPT !.m_order_metadata = MetaPut(@, order_id, side, price_cents)]

\* ------------------------------------------------- fill_bids / fill_asks
(* The state of one fill_* call: the book, the inbound order_quantity q,   *)
(* the out-parameters units and value (numerator over CentsPerUnit), the   *)
(* fills made so far, whether the function returned from inside the inner  *)
(* while loop, and whether the process died.                               *)
FillStart(B, order_quantity) ==
  [B |-> B, q |-> order_quantity, units |-> 0, value |-> 0, trades |-> <<>>,
   done |-> FALSE, crashed |-> FALSE]

\* (qty * price_cents) / 100.0, as a numerator over CentsPerUnit
Notional(qty, price_cents) == qty * price_cents

\* mutant: an order filled in part is popped off its queue like one filled in full
RECURSIVE fill_bids_level_partial_pops(_, _)
fill_bids_level_partial_pops(S, price_cents) ==
  LET orders == S.B.m_bids[price_cents] IN
  IF PriceLevel_empty(orders) \/ ~(S.q > 0) THEN S
  ELSE
    LET current_order == PriceLevel_front(orders)
        available_qty == current_order.quantity
    IN IF available_qty > S.q
       THEN
         [S EXCEPT
            !.units = @ + S.q,
            !.value = @ + Notional(S.q, price_cents),
            !.B.m_bids[price_cents] =
               PriceLevel_pop_front(
                 [orders EXCEPT !.orders[orders.head + 1].quantity = @ - S.q]),
            !.q = 0,
            !.trades = Append(@, [id |-> current_order.id, price |-> price_cents,
                                  qty |-> S.q, full |-> FALSE]),
            !.done = TRUE]
       ELSE
         LET popped == PriceLevel_pop_front(orders)
             emptied == PriceLevel_empty(popped)
             active == IF emptied THEN S.B.m_active_bids \ {price_cents}
                       ELSE S.B.m_active_bids
             best == IF emptied /\ price_cents = S.B.m_best_bid
                     THEN (IF active = {} THEN 0 ELSE SetMax(active))
                     ELSE S.B.m_best_bid
         IN fill_bids_level_partial_pops(
              [S EXCEPT
                 !.units = @ + available_qty,
                 !.value = @ + Notional(available_qty, price_cents),
                 !.q = @ - available_qty,
                 !.B.m_bids[price_cents] = popped,
                 !.B.m_order_metadata = MetaErase(@, current_order.id),
                 !.B.m_active_bids = active,
                 !.B.m_best_bid = best,
                 !.trades = Append(@, [id |-> current_order.id, price |-> price_cents,
                                       qty |-> available_qty, full |-> TRUE])],
              price_cents)

\* the inner while loop of fill_bids at one price level
RECURSIVE fill_bids_level(_, _)
fill_bids_level(S, price_cents) ==
  LET orders == S.B.m_bids[price_cents] IN
  IF PriceLevel_empty(orders) \/ ~(S.q > 0) THEN S
  ELSE
    LET current_order == PriceLevel_front(orders)
        available_qty == current_order.quantity
    IN IF available_qty > S.q
       THEN \* partial fill of the resting order: return
         [S EXCEPT
            !.units = @ + S.q,
            !.value = @ + Notional(S.q, price_cents),
            !.B.m_bids[price_cents].orders[orders.head + 1].quantity = @ - S.q,
            !.q = 0,
            !.trades = Append(@, [id |-> current_order.id, price |-> price_cents,
                                  qty |-> S.q, full |-> FALSE]),
            !.done = TRUE]
       ELSE \* full fill of the resting order
         LET popped == PriceLevel_pop_front(orders)
             emptied == PriceLevel_empty(popped)
             active == IF emptied THEN S.B.m_active_bids \ {price_cents}
                       ELSE S.B.m_active_bids
             best == IF emptied /\ price_cents = S.B.m_best_bid
                     THEN (IF active = {} THEN 0 ELSE SetMax(active))
                     ELSE S.B.m_best_bid
         IN fill_bids_level(
              [S EXCEPT
                 !.units = @ + available_qty,
                 !.value = @ + Notional(available_qty, price_cents),
                 !.q = @ - available_qty,
                 !.B.m_bids[price_cents] = popped,
                 !.B.m_order_metadata = MetaErase(@, current_order.id),
                 !.B.m_active_bids = active,
                 !.B.m_best_bid = best,
                 !.trades = Append(@, [id |-> current_order.id, price |-> price_cents,
                                       qty |-> available_qty, full |-> TRUE])],
              price_cents)

(* The walk of fill_bids over m_active_bids with a reverse iterator.  base *)
(* is the element the iterator's base points to, or RevEnd for end(); the  *)
(* iterator denotes the greatest active tick below base.  The loop erases  *)
(* the denoted tick from the set it is walking and then steps the          *)
(* iterator: the base moves to what has become its predecessor, so the     *)
(* next tick visited is the one below that.  When the erased tick was the  *)
(* lowest, the step decrements begin(), which is undefined: the walk       *)
(* stops, or restarts from end(), or the process dies.                     *)
RevEnd == MAX_PRICE_CENTS + 1

RECURSIVE fill_bids_from(_, _, _)
fill_bids_from(S, limit_price, base) ==
  LET active == S.B.m_active_bids
      begin == IF active = {} THEN RevEnd ELSE SetMin(active)
  IN IF base = begin THEN {S}                         \* it == rend()
     ELSE
       LET price_cents == SetMax({t \in active : t < base}) IN
       IF limit_price > 0 /\ price_cents < limit_price THEN {S}   \* break
       ELSE
         LET S2 == fill_bids_level(S, price_cents)
             active2 == S2.B.m_active_bids
             begin2 == IF active2 = {} THEN RevEnd ELSE SetMin(active2)
         IN IF S2.done THEN {S2}
            ELSE IF S2.q = 0 THEN {S2}                 \* break
            ELSE IF base = begin2
                 THEN {S2, [S2 EXCEPT !.crashed = TRUE]}
                      \cup fill_bids_from(S2, limit_price, RevEnd)
                 ELSE fill_bids_from(S2, limit_price,
                                     SetMax({t \in active2 : t < base}))

fill_bids(B, order_quantity, limit_price) ==
  IF B.m_active_bids = {} THEN {FillStart(B, order_quantity)}
  ELSE fill_bids_from(FillStart(B, order_quantity), limit_price, RevEnd)

\* mutant: a partial fill leaves the resting order's quantity as it was
RECURSIVE fill_asks_level_no_decrement(_, _)
fill_asks_level_no_decrement(S, price_cents) ==
  LET orders == S.B.m_asks[price_cents] IN
  IF PriceLevel_empty(orders) \/ ~(S.q > 0) THEN S
  ELSE
    LET current_order == PriceLevel_front(orders)
        available_qty == current_order.quantity
    IN IF available_qty > S.q
       THEN
         [S EXCEPT
            !.units = @ + S.q,
            !.value = @ + Notional(S.q, price_cents),
            !.q = 0,
            !.trades = Append(@, [id |-> current_order.id, price |-> price_cents,
                                  qty |-> S.q, full |-> FALSE]),
            !.done = TRUE]
       ELSE
         LET popped == PriceLevel_pop_front(orders)
             emptied == PriceLevel_empty(popped)
             active == IF emptied THEN S.B.m_active_asks \ {price_cents}
                       ELSE S.B.m_active_asks
             best == IF emptied /\ price_cents = S.B.m_best_ask
                     THEN (IF active = {} THEN MAX_PRICE_CENTS + 1 ELSE SetMin(active))
                     ELSE S.B.m_best_ask
         IN fill_asks_level_no_decrement(
              [S EXCEPT
                 !.units = @ + available_qty,
                 !.value = @ + Notional(available_qty, price_cents),
                 !.q = @ - available_qty,
                 !.B.m_asks[price_cents] = popped,
                 !.B.m_order_metadata = MetaErase(@, current_order.id),
                 !.B.m_active_asks = active,
                 !.B.m_best_ask = best,
                 !.trades = Append(@, [id |-> current_order.id, price |-> price_cents,
                                       qty |-> available_qty, full |-> TRUE])],
              price_cents)

\* the inner while loop of fill_asks at one price level
RECURSIVE fill_asks_level(_, _)
fill_asks_level(S, price_cents) ==
  LET orders == S.B.m_asks[price_cents] IN
  IF PriceLevel_empty(orders) \/ ~(S.q > 0) THEN S
  ELSE
    LET current_order == PriceLevel_front(orders)
        available_qty == current_order.quantity
    IN IF available_qty > S.q
       THEN
         [S EXCEPT
            !.units = @ + S.q,
            !.value = @ + Notional(S.q, price_cents),
            !.B.m_asks[price_cents].orders[orders.head + 1].quantity = @ - S.q,
            !.q = 0,
            !.trades = Append(@, [id |-> current_order.id, price |-> price_cents,
                                  qty |-> S.q, full |-> FALSE]),
            !.done = TRUE]
       ELSE
         LET popped == PriceLevel_pop_front(orders)
             emptied == PriceLevel_empty(popped)
             active == IF emptied THEN S.B.m_active_asks \ {price_cents}
                       ELSE S.B.m_active_asks
             best == IF emptied /\ price_cents = S.B.m_best_ask
                     THEN (IF active = {} THEN MAX_PRICE_CENTS + 1 ELSE SetMin(active))
                     ELSE S.B.m_best_ask
         IN fill_asks_level(
              [S EXCEPT
                 !.units = @ + available_qty,
                 !.value = @ + Notional(available_qty, price_cents),
                 !.q = @ - available_qty,
                 !.B.m_asks[price_cents] = popped,
                 !.B.m_order_metadata = MetaErase(@, current_order.id),
                 !.B.m_active_asks = active,
                 !.B.m_best_ask = best,
                 !.trades = Append(@, [id |-> current_order.id, price |-> price_cents,
                                       qty |-> available_qty, full |-> TRUE])],
              price_cents)

(* The walk of fill_asks: a range-for over m_active_asks.  cur is the tick *)
(* the iterator points to, or FwdEnd for end().  When the level at cur is  *)
(* drained the loop erases cur from the set, which invalidates the         *)
(* iterator, and then increments it unless order_quantity is 0: that is    *)
(* undefined.  The walk goes on at the successor (the freed node's links   *)
(* still read), or stops, or the process dies.                             *)
FwdEnd == MAX_PRICE_CENTS + 1

Successor(active, t) ==
  IF {u \in active : u > t} = {} THEN FwdEnd ELSE SetMin({u \in active : u > t})

RECURSIVE fill_asks_from(_, _, _)
fill_asks_from(S, limit_price, cur) ==
  IF cur = FwdEnd THEN {S}
  ELSE
    LET price_cents == cur IN
    IF limit_price > 0 /\ price_cents > limit_price THEN {S}       \* break
    ELSE
      LET S2 == fill_asks_level(S, price_cents)
          active2 == S2.B.m_active_asks
          next == Successor(active2, price_cents)
      IN IF S2.done THEN {S2}
         ELSE IF S2.q = 0 THEN {S2}                    \* break
         ELSE IF price_cents \notin active2
              THEN {S2, [S2 EXCEPT !.crashed = TRUE]}
                   \cup fill_asks_from(S2, limit_price, next)
              ELSE fill_asks_from(S2, limit_price, next)

fill_asks(B, order_quantity, limit_price) ==
  IF B.m_active_asks = {} THEN {FillStart(B, order_quantity)}
  ELSE fill_asks_from(FillStart(B, order_quantity), limit_price,
                      SetMin(B.m_active_asks))

\* ---------------------------------------------------------- handle_order
(* The set of outcomes of handle_order: the book on return, the pair       *)
(* returned, the fills made, whether the process died.  A limit order that *)
(* is left with order_quantity > 0 after the fill, or that does not cross, *)
(* is handed to add_order.                                                 *)
Outcome(S, B) ==
  [B |-> B, units |-> S.units, value |-> S.value, trades |-> S.trades,
   crashed |-> S.crashed]

AfterFill(S, price, side) ==
  IF S.crashed THEN Outcome(S, S.B)
  ELSE IF S.q > 0 THEN Outcome(S, add_order(S.B, S.q, price, side))
  ELSE Outcome(S, S.B)

\* mutant: the order that does not cross is put on the opposite side
NoFill_opposite_side(B, order_quantity, price, side) ==
  LET S == FillStart(B, order_quantity)
  IN Outcome(S, add_order(B, order_quantity, price,
                          IF side = "bid" THEN "ask" ELSE "bid"))

NoFill(B, order_quantity, price, side) ==
  LET S == FillStart(B, order_quantity)
  IN Outcome(S, add_order(B, order_quantity, price, side))

\* mutant: a market order executes against its own side
market_order_own_side(B, order_quantity, side) ==
  IF side = "sell"
  THEN {Outcome(S, S.B) : S \in fill_asks(B, order_quantity, NoLimit)}
  ELSE {Outcome(S, S.B) : S \in fill_bids(B, order_quantity, NoLimit)}

\* the market branch of handle_order
market_order(B, order_quantity, side) ==
  IF side = "sell"
  THEN {Outcome(S, S.B) : S \in fill_bids(B, order_quantity, NoLimit)}
  ELSE {Outcome(S, S.B) : S \in fill_asks(B, order_quantity, NoLimit)}

handle_order(B, type, order_quantity, side, price) ==
  IF type = "market"
  THEN market_order(B, order_quantity, side)
  ELSE IF side = "buy"
       THEN LET best_ask == IF B.m_active_asks = {} THEN -1 ELSE B.m_best_ask IN
            IF best_ask # -1 /\ best_ask <= price
            THEN {AfterFill(S, price, "bid") : S \in fill_asks(B, order_quantity, price)}
            ELSE {NoFill(B, order_quantity, price, "bid")}
       ELSE LET best_bid == IF B.m_active_bids = {} THEN -1 ELSE B.m_best_bid IN
            IF best_bid # -1 /\ best_bid >= price
            THEN {AfterFill(S, price, "ask") : S \in fill_bids(B, order_quantity, price)}
            ELSE {NoFill(B, order_quantity, price, "ask")}

\* ------------------------------------------------------------ best_quote
\* mutant: the cached best of the side is returned instead of scanning the levels
best_quote_cached(B, side) ==
  IF side = "bid"
  THEN (IF B.m_active_bids = {} THEN -1 ELSE B.m_best_bid)
  ELSE (IF B.m_active_asks = {} THEN -1 ELSE B.m_best_ask)

best_quote(B, side) ==
  IF side = "bid"
  THEN LET S == {p \in Ticks : ~PriceLevel_empty(B.m_bids[p])}
       IN IF S = {} THEN -1 ELSE SetMax(S)
  ELSE LET S == {p \in Ticks : ~PriceLevel_empty(B.m_asks[p])}
       IN IF S = {} THEN -1 ELSE SetMin(S)

\* ------------------------------------------------- get_bids, get_asks
(* The accessors return the vectors themselves: MAX_PRICE_CENTS + 1 levels, *)
(* the level of tick p at index p - MIN_PRICE_CENTS.                        *)
LevelVector(levels) ==
  [idx \in 0..MAX_PRICE_CENTS |->
     IF idx + MIN_PRICE_CENTS \in Ticks THEN levels[idx + MIN_PRICE_CENTS]
     ELSE EmptyLevel]

get_bids(B) == LevelVector(B.m_bids)
get_asks(B) == LevelVector(B.m_asks)

\* std::vector::size and std::vector::at
vector_size(v) == Cardinality(DOMAIN v)
vector_at(v, i) == v[i]

\* PriceLevel::operator[]
PriceLevel_index(L, index) == L.orders[L.head + index + 1]

\* ---------------------------------------------- modify_order, delete_order
\* the position in the level's vector of the first live order with this id, or 0
FindLive(L, id) ==
  LET hits == {i \in (L.head + 1)..Len(L.orders) : L.orders[i].id = id}
  IN IF hits = {} THEN 0 ELSE SetMin(hits)

LevelsOf(B, side) == IF side = "ask" THEN B.m_asks ELSE B.m_bids

\* mutant: a modify to quantity 0 takes the order out of its queue and out of the registry
modify_order_zero_removes(B, id, new_qty) ==
  IF id \notin DOMAIN B.m_order_metadata THEN [B |-> B, ok |-> FALSE]
  ELSE
    LET side == B.m_order_metadata[id].side
        price_cents == B.m_order_metadata[id].price_cents
        level == LevelsOf(B, side)[price_cents]
        pos == FindLive(level, id)
        changed == IF new_qty = 0 THEN PriceLevel_erase(level, pos)
                   ELSE [level EXCEPT !.orders[pos].quantity = new_qty]
        B1 == IF new_qty = 0 THEN [B EXCEPT !.m_order_metadata = MetaErase(@, id)]
              ELSE B
    IN IF pos = 0 THEN [B |-> B, ok |-> FALSE]
       ELSE IF side = "ask"
            THEN [B |-> [B1 EXCEPT !.m_asks[price_cents] = changed], ok |-> TRUE]
            ELSE [B |-> [B1 EXCEPT !.m_bids[price_cents] = changed], ok |-> TRUE]

\* mutant: the modified order is taken out of the queue and appended again
modify_order_requeue(B, id, new_qty) ==
  IF id \notin DOMAIN B.m_order_metadata THEN [B |-> B, ok |-> FALSE]
  ELSE
    LET side == B.m_order_metadata[id].side
        price_cents == B.m_order_metadata[id].price_cents
        level == LevelsOf(B, side)[price_cents]
        pos == FindLive(level, id)
    IN IF pos = 0 THEN [B |-> B, ok |-> FALSE]
       ELSE LET moved == PriceLevel_push_back(
                           PriceLevel_erase(level, pos),
                           [level.orders[pos] EXCEPT !.quantity = new_qty])
            IN IF side = "ask"
               THEN [B |-> [B EXCEPT !.m_asks[price_cents] = moved], ok |-> TRUE]
               ELSE [B |-> [B EXCEPT !.m_bids[price_cents] = moved], ok |-> TRUE]

\* [B, ok]: the book afterwards and the value returned
modify_order(B, id, new_qty) ==
  IF id \notin DOMAIN B.m_order_metadata THEN [B |-> B, ok |-> FALSE]
  ELSE
    LET side == B.m_order_metadata[id].side
        price_cents == B.m_order_metadata[id].price_cents
        pos == FindLive(LevelsOf(B, side)[price_cents], id)
    IN IF pos = 0 THEN [B |-> B, ok |-> FALSE]
       ELSE IF side = "ask"
            THEN [B |-> [B EXCEPT !.m_asks[price_cents].orders[pos].quantity = new_qty],
                  ok |-> TRUE]
            ELSE [B |-> [B EXCEPT !.m_bids[price_cents].orders[pos].quantity = new_qty],
                  ok |-> TRUE]

\* mutant: the registry entry of the deleted order is left behind
delete_order_keeps_registry(B, id) ==
  IF id \notin DOMAIN B.m_order_metadata THEN [B |-> B, ok |-> FALSE]
  ELSE
    LET side == B.m_order_metadata[id].side
        price_cents == B.m_order_metadata[id].price_cents
        pos == FindLive(LevelsOf(B, side)[price_cents], id)
    IN IF pos = 0 THEN [B |-> B, ok |-> FALSE]
       ELSE IF side = "bid"
            THEN [B |-> [B EXCEPT !.m_bids[price_cents] = PriceLevel_erase(@, pos)],
                  ok |-> TRUE]
            ELSE [B |-> [B EXCEPT !.m_asks[price_cents] = PriceLevel_erase(@, pos)],
                  ok |-> TRUE]

\* mutant: an identifier that is not registered is reported as deleted
delete_order_always_true(B, id) ==
  IF id \notin DOMAIN B.m_order_metadata THEN [B |-> B, ok |-> TRUE]
  ELSE
    LET side == B.m_order_metadata[id].side
        price_cents == B.m_order_metadata[id].price_cents
        B1 == [B EXCEPT !.m_order_metadata = MetaErase(@, id)]
        pos == FindLive(LevelsOf(B, side)[price_cents], id)
    IN IF pos = 0 THEN [B |-> B1, ok |-> FALSE]
       ELSE IF side = "bid"
            THEN [B |-> [B1 EXCEPT !.m_bids[price_cents] = PriceLevel_erase(@, pos)],
                  ok |-> TRUE]
            ELSE [B |-> [B1 EXCEPT !.m_asks[price_cents] = PriceLevel_erase(@, pos)],
                  ok |-> TRUE]

delete_order(B, id) ==
  IF id \notin DOMAIN B.m_order_metadata THEN [B |-> B, ok |-> FALSE]
  ELSE
    LET side == B.m_order_metadata[id].side
        price_cents == B.m_order_metadata[id].price_cents
        B1 == [B EXCEPT !.m_order_metadata = MetaErase(@, id)]
        pos == FindLive(LevelsOf(B, side)[price_cents], id)
    IN IF pos = 0 THEN [B |-> B1, ok |-> FALSE]
       ELSE IF side = "bid"
            THEN [B |-> [B1 EXCEPT !.m_bids[price_cents] = PriceLevel_erase(@, pos)],
                  ok |-> TRUE]
            ELSE [B |-> [B1 EXCEPT !.m_asks[price_cents] = PriceLevel_erase(@, pos)],
                  ok |-> TRUE]

\* ----------------------------------------------------------- the machine
NoCall ==
  [op |-> "none", type |-> "none", side |-> "none", qty |-> 0, price |-> 0,
   id |-> 0, ok |-> FALSE, units |-> 0, value |-> 0, trades |-> <<>>,
   quote |-> 0]

\* Orderbook(false): both vectors of empty levels, the in-class initialisers
Init ==
  /\ m_bids = [p \in Ticks |-> EmptyLevel]
  /\ m_asks = [p \in Ticks |-> EmptyLevel]
  /\ m_active_bids = {}
  /\ m_active_asks = {}
  /\ m_order_metadata = <<>>
  /\ m_best_bid = 0
  /\ m_best_ask = MAX_PRICE_CENTS + 1
  /\ s_next_id = 0
  /\ m_order_pool = OrderPool(PoolCapacity)
  /\ crashed = FALSE
  /\ call = NoCall

(* A public operation starts when no call is outstanding; call then holds  *)
(* the operation, its arguments and its result until the caller has taken  *)
(* the result (Return).  A call that kills the process never returns.      *)
Quiescent == ~crashed /\ call.op = "none"

AddOrder ==
  /\ Quiescent
  /\ s_next_id < MaxOrders
  /\ \E qty \in QtyInputs, price \in PriceInputs, side \in BookSides :
       /\ Install(add_order(Book, qty, price, side))
       /\ call' = [NoCall EXCEPT !.op = "add_order", !.side = side,
                                 !.qty = qty, !.price = price]
  /\ UNCHANGED crashed

\* a market order is submitted with the default price argument 0
HandleArgs ==
  {a \in [type : OrderTypes, qty : QtyInputs, side : Sides, price : PriceInputs] :
     a.type = "market" => a.price = 0}

HandleOrder ==
  /\ Quiescent
  /\ \E a \in HandleArgs :
       /\ a.type = "limit" => s_next_id < MaxOrders
       /\ \E r \in handle_order(Book, a.type, a.qty, a.side, a.price) :
            /\ Install(r.B)
            /\ crashed' = r.crashed
            /\ call' = [NoCall EXCEPT !.op = "handle_order", !.type = a.type,
                                      !.side = a.side, !.qty = a.qty, !.price = a.price,
                                      !.units = r.units, !.value = r.value,
                                      !.trades = r.trades]

ModifyOrder ==
  /\ Quiescent
  /\ \E id \in IdInputs, new_qty \in QtyInputs :
       LET r == modify_order(Book, id, new_qty) IN
       /\ Install(r.B)
       /\ call' = [NoCall EXCEPT !.op = "modify_order", !.id = id, !.qty = new_qty,
                                 !.ok = r.ok]
  /\ UNCHANGED crashed

DeleteOrder ==
  /\ Quiescent
  /\ \E id \in IdInputs :
       LET r == delete_order(Book, id) IN
       /\ Install(r.B)
       /\ call' = [NoCall EXCEPT
                    !.op = "delete_order", !.id = id, !.ok = r.ok,
                    \* the residency the registry gave for id, when it had one
                    !.side = IF id \in DOMAIN m_order_metadata
                             THEN m_order_metadata[id].side ELSE "none",
                    !.price = IF id \in DOMAIN m_order_metadata
                              THEN m_order_metadata[id].price_cents ELSE 0]
  /\ UNCHANGED crashed

BestQuote ==
  /\ Quiescent
  /\ \E side \in BookSides :
       call' = [NoCall EXCEPT !.op = "best_quote", !.side = side,
                              !.quote = best_quote(Book, side)]
  /\ UNCHANGED <<m_bids, m_asks, m_active_bids, m_active_asks, m_order_metadata,
                 m_best_bid, m_best_ask, s_next_id, m_order_pool, crashed>>

Return ==
  /\ ~crashed
  /\ call.op # "none"
  /\ call' = NoCall
  /\ UNCHANGED <<m_bids, m_asks, m_active_bids, m_active_asks, m_order_metadata,
                 m_best_bid, m_best_ask, s_next_id, m_order_pool, crashed>>

Next == AddOrder \/ HandleOrder \/ ModifyOrder \/ DeleteOrder \/ BestQuote \/ Return

Spec == Init /\ [][Next]_vars

\* ================================================================ claims
\* what a handle_order call of this side executes against, and where it rests
OppositeLevels(side) == IF side = "sell" THEN m_bids ELSE m_asks
OwnLevels(side) == IF side = "sell" THEN m_asks ELSE m_bids

\* the orders resting at tick p in a side's levels, in queue order
Resting(levels, p) == PriceLevel_live(levels[p])
RestingIds(levels, p) == {Resting(levels, p)[i].id : i \in 1..Len(Resting(levels, p))}
HoldsOrders(levels) == \E p \in Ticks : Len(Resting(levels, p)) > 0

Returned(op) == call.op = op /\ ~crashed

(* C1: price-time priority within a tick.  Identifiers grow with insertion, *)
(* so the earlier-inserted orders at a tick are those with smaller ids.  In *)
(* every handle_order call, an order resting at tick t is filled only after *)
(* every order that rested at t before the call with a smaller id has been  *)
(* filled in full earlier in the same call: a later order receives no fill  *)
(* while an earlier one still rests.                                        *)
FilledInFullBefore(trades, k, id) ==
  \E j \in 1..(k - 1) : trades[j].id = id /\ trades[j].full

C1_TimePriorityWithinTick ==
  [][call'.op = "handle_order" =>
       \A k \in 1..Len(call'.trades) :
         LET t == call'.trades[k]
             before == Resting(OppositeLevels(call'.side), t.price)
         IN \A i \in 1..Len(before) :
              before[i].id < t.id => FilledInFullBefore(call'.trades, k, before[i].id)
    ]_vars

\* C1 witness: one call filled two orders of the same tick, the second in part
C1_Witness ==
  /\ Returned("handle_order")
  /\ \E j, k \in 1..Len(call.trades) :
       /\ j < k
       /\ call.trades[j].price = call.trades[k].price
       /\ call.trades[j].qty > 0
       /\ call.trades[k].qty > 0
       /\ ~call.trades[k].full

\* ---- helpers of C2..C10
OwnBookSide(side) == IF side = "buy" THEN "bid" ELSE "ask"
OppositeBookSide(side) == IF side = "buy" THEN "ask" ELSE "bid"
SideLevels(B, bs) == IF bs = "bid" THEN B.m_bids ELSE B.m_asks
SideState(B, bs) ==
  IF bs = "bid"
  THEN [levels |-> B.m_bids, active |-> B.m_active_bids, best |-> B.m_best_bid]
  ELSE [levels |-> B.m_asks, active |-> B.m_active_asks, best |-> B.m_best_ask]

RECURSIVE SumQty(_)
SumQty(orders) ==
  IF orders = <<>> THEN 0 ELSE Head(orders).quantity + SumQty(Tail(orders))

RECURSIVE TotalQtyUpTo(_, _)
TotalQtyUpTo(levels, p) ==
  IF p < MIN_PRICE_CENTS THEN 0
  ELSE SumQty(Resting(levels, p)) + TotalQtyUpTo(levels, p - 1)

\* the total quantity resting on a side
TotalQty(levels) == TotalQtyUpTo(levels, MAX_PRICE_CENTS)

RECURSIVE SumNotional(_)
SumNotional(trades) ==
  IF trades = <<>> THEN 0
  ELSE Head(trades).qty * Head(trades).price + SumNotional(Tail(trades))

AllRestingIds(B) ==
  UNION {RestingIds(B.m_bids, p) \cup RestingIds(B.m_asks, p) : p \in Ticks}

\* the limit tick p crosses the best tick at which an opposite order actually rests
Crosses(B, side, p) ==
  IF side = "buy"
  THEN best_quote(B, "ask") # -1 /\ best_quote(B, "ask") <= p
  ELSE best_quote(B, "bid") # -1 /\ best_quote(B, "bid") >= p

Barrier(side, p, t) == IF side = "buy" THEN t <= p ELSE t >= p

NotCrossed(B) ==
  (best_quote(B, "bid") # -1 /\ best_quote(B, "ask") # -1)
     => best_quote(B, "ask") - best_quote(B, "bid") >= 0

\* every order resting on either side has positive quantity
QuantitiesPositive(B) ==
  \A p \in Ticks :
    /\ \A i \in 1..Len(Resting(B.m_bids, p)) : Resting(B.m_bids, p)[i].quantity > 0
    /\ \A i \in 1..Len(Resting(B.m_asks, p)) : Resting(B.m_asks, p)[i].quantity > 0

(* C2: price priority across ticks.  On return from handle_order, a bid at  *)
(* tick t was filled by a sell only if no bid with positive quantity rests  *)
(* at a tick above t, and an ask at tick t was filled by a buy only if no   *)
(* ask rests at a tick below t.  Stated for calls of positive quantity on a *)
(* book whose resting orders all have positive quantity.                    *)
C2_PricePriorityAcrossTicks ==
  [][(call'.op = "handle_order" /\ ~crashed' /\ call'.qty > 0 /\ QuantitiesPositive(Book)) =>
       \A k \in 1..Len(call'.trades) :
         \A p \in Ticks :
           IF call'.side = "sell"
           THEN p > call'.trades[k].price =>
                  \A i \in 1..Len(Resting(m_bids', p)) : Resting(m_bids', p)[i].quantity <= 0
           ELSE p < call'.trades[k].price => Len(Resting(m_asks', p)) = 0
    ]_vars

(* C3: a market order of quantity Q > 0 against an opposite side holding    *)
(* total resting quantity A returns filled quantity min(Q, A), and leaves   *)
(* the opposite side without orders whenever Q >= A.  Stated for a market   *)
(* sell against bids that all have positive quantity.                       *)
C3_MarketFillsMinOfQA ==
  [][(call'.op = "handle_order" /\ call'.type = "market" /\ call'.side = "sell"
        /\ call'.qty > 0 /\ ~crashed' /\ QuantitiesPositive(Book)) =>
       LET A == TotalQty(m_bids) IN
       /\ call'.units = IF call'.qty <= A THEN call'.qty ELSE A
       /\ call'.qty >= A => ~HoldsOrders(m_bids')
    ]_vars

(* C4: the notional handle_order returns is the sum over its fills of       *)
(* fill_qty * fill_tick in integer ticks.  The returned double is           *)
(* call.value / CentsPerUnit.                                               *)
C4_NotionalInIntegerTicks ==
  Returned("handle_order") =>
    call.value = CentsPerUnit * SumNotional(call.trades)

(* C5: a limit order crosses inclusively: a buy limit of positive quantity  *)
(* at an in-range tick at or above the lowest tick at which an ask rests,   *)
(* or a sell limit at or below the highest tick at which a bid rests,       *)
(* returns filled_qty > 0, in every reachable state.                        *)
C5_LimitCrossesInclusively ==
  [][(call'.op = "handle_order" /\ call'.type = "limit" /\ call'.qty > 0 /\ ~crashed'
        /\ call'.price \in Ticks
        /\ Crosses(Book, call'.side, call'.price)) =>
       call'.units > 0
    ]_vars

(* C6 as stated: a limit order whose tick does not cross the opposite       *)
(* side's best returns (0, 0), leaves the opposite side unchanged and rests *)
(* with its full quantity on its own side at its tick.                      *)
RestsInFull(B0, B1, side, p, qty) ==
  LET own == OwnBookSide(side) IN
  \E t \in Ticks :
    /\ t = p
    /\ \E o \in [id : DOMAIN B1.m_order_metadata, quantity : {qty}, price_cents : {p}] :
         /\ o.id \notin AllRestingIds(B0)
         /\ Resting(SideLevels(B1, own), p) = Append(Resting(SideLevels(B0, own), p), o)
         /\ B1.m_order_metadata[o.id] = [side |-> own, price_cents |-> p]
    /\ \A u \in Ticks \ {p} : SideLevels(B1, own)[u] = SideLevels(B0, own)[u]
    /\ p \in SideState(B1, own).active
    /\ SideState(B1, own).best =
         IF own = "bid"
         THEN (IF p > SideState(B0, own).best THEN p ELSE SideState(B0, own).best)
         ELSE (IF p < SideState(B0, own).best THEN p ELSE SideState(B0, own).best)

NonCrossingLimitRests(validOnly) ==
  (call'.op = "handle_order" /\ call'.type = "limit"
     /\ (validOnly => (call'.price \in Ticks /\ call'.qty > 0))
     /\ ~Crosses(Book, call'.side, call'.price)) =>
    /\ ~crashed'
    /\ call'.units = 0
    /\ call'.value = 0
    /\ SideState(Book', OppositeBookSide(call'.side))
         = SideState(Book, OppositeBookSide(call'.side))
    /\ RestsInFull(Book, Book', call'.side, call'.price, call'.qty)

C6_Original == [][NonCrossingLimitRests(FALSE)]_vars

(* C6 amended: a limit order of quantity Q > 0 whose tick lies in           *)
(* [MIN_PRICE_CENTS, MAX_PRICE_CENTS] and does not cross the opposite       *)
(* side's best returns (0, 0), leaves the opposite side unchanged and rests *)
(* with its full quantity on its own side at its tick.                      *)
C6_NonCrossingLimitRests == [][NonCrossingLimitRests(TRUE)]_vars

\* C6 witness: a limit order that did not cross has come to rest beside resting opposite orders
C6_Witness ==
  /\ Returned("handle_order")
  /\ call.type = "limit"
  /\ call.qty > 0
  /\ call.trades = <<>>
  /\ HoldsOrders(OppositeLevels(call.side))
  /\ \E i \in 1..Len(Resting(OwnLevels(call.side), call.price)) :
       Resting(OwnLevels(call.side), call.price)[i].id = s_next_id

(* C7: during a limit order no fill occurs at a tick beyond the limit, and  *)
(* on return with residual quantity > 0 no opposite order remains resting   *)
(* at a tick that satisfies the barrier.  The second part is stated for a   *)
(* sell limit of positive quantity at an in-range tick against bids of      *)
(* positive quantity.                                                       *)
C7_LimitBarrier ==
  [][(call'.op = "handle_order" /\ call'.type = "limit" /\ ~crashed') =>
       /\ \A k \in 1..Len(call'.trades) :
            Barrier(call'.side, call'.price, call'.trades[k].price)
       /\ (call'.side = "sell" /\ call'.qty > 0 /\ call'.price \in Ticks
             /\ QuantitiesPositive(Book) /\ call'.units < call'.qty) =>
            \A t \in Ticks :
              Barrier(call'.side, call'.price, t) => Len(Resting(m_bids', t)) = 0
    ]_vars

(* C8: after a limit order of quantity Q at an in-range tick p has filled   *)
(* F < Q, exactly one new order, of quantity Q - F, rests at p on the       *)
(* initiator's side and is registered under that side and tick; when F = Q  *)
(* no new order rests on either side.                                       *)
NewOrders(B0, B1, bs) ==
  {o \in UNION {{Resting(SideLevels(B1, bs), p)[i] :
                   i \in 1..Len(Resting(SideLevels(B1, bs), p))} : p \in Ticks} :
     o.id \notin AllRestingIds(B0)}

C8_LimitResidualRests ==
  [][(call'.op = "handle_order" /\ call'.type = "limit" /\ call'.price \in Ticks
        /\ ~crashed') =>
       LET own == OwnBookSide(call'.side)
           opp == OppositeBookSide(call'.side)
           residual == call'.qty - call'.units
       IN /\ NewOrders(Book, Book', opp) = {}
          /\ residual > 0 =>
               /\ Cardinality(NewOrders(Book, Book', own)) = 1
               /\ \A o \in NewOrders(Book, Book', own) :
                    /\ o.quantity = residual
                    /\ o.price_cents = call'.price
                    /\ o \in {Resting(SideLevels(Book', own), call'.price)[i] :
                               i \in 1..Len(Resting(SideLevels(Book', own), call'.price))}
                    /\ o.id \in DOMAIN m_order_metadata'
                    /\ m_order_metadata'[o.id] = [side |-> own, price_cents |-> call'.price]
          /\ residual = 0 => NewOrders(Book, Book', own) = {}
    ]_vars

(* C9: a market order never rests.  Its own side (queues, active set,       *)
(* cached best) is unchanged and the registry gains no identifier, whatever *)
(* residual is left; submitted when the opposite side holds no order it     *)
(* returns (0, 0) and leaves the whole engine state unchanged.              *)
C9_MarketNeverRests ==
  [][(call'.op = "handle_order" /\ call'.type = "market") =>
       /\ SideState(Book', OwnBookSide(call'.side)) = SideState(Book, OwnBookSide(call'.side))
       /\ DOMAIN m_order_metadata' \subseteq DOMAIN m_order_metadata
       /\ s_next_id' = s_next_id
       /\ ~HoldsOrders(OppositeLevels(call'.side)) =>
            /\ call'.units = 0
            /\ call'.value = 0
            /\ Book' = Book
            /\ ~crashed'
    ]_vars

\* C9 witness: a market order has exhausted the opposite side with quantity left over
C9_Witness ==
  /\ Returned("handle_order")
  /\ call.type = "market"
  /\ call.units > 0
  /\ call.units < call.qty
  /\ HoldsOrders(OwnLevels(call.side))

(* C10: the book is not crossed on return from a public operation.  Stated  *)
(* for handle_order: a sell of positive quantity at an in-range tick that   *)
(* starts on a book that is not crossed and holds only orders of positive   *)
(* quantity returns with best ask - best bid >= 0 whenever both sides hold  *)
(* orders.                                                                  *)
C10_NotCrossedOnReturn ==
  [][(call'.op = "handle_order" /\ ~crashed' /\ call'.side = "sell" /\ call'.qty > 0
        /\ (call'.type = "limit" => call'.price \in Ticks)
        /\ QuantitiesPositive(Book) /\ NotCrossed(Book)) =>
       NotCrossed(Book')
    ]_vars

(* C11: modify_order and delete_order called with an identifier that is not *)
(* in the registry return false and leave the whole engine state unchanged. *)
(* The identifiers concerned are those never issued (above the counter) and *)
(* those issued whose order no longer rests in any queue (cancelled, or     *)
(* filled in full).                                                         *)
UnknownId(B, id) ==
  \/ id \notin DOMAIN B.m_order_metadata
  \/ id > B.s_next_id
  \/ id \notin AllRestingIds(B)

C11_UnknownIdReturnsFalse ==
  [][(call'.op \in {"modify_order", "delete_order"} /\ UnknownId(Book, call'.id)) =>
       /\ ~call'.ok
       /\ Book' = Book
       /\ ~crashed'
    ]_vars

\* C11 witness: an identifier that was issued and is gone again was refused while orders rest
C11_Witness ==
  /\ call.op \in {"modify_order", "delete_order"}
  /\ ~call.ok
  /\ call.id <= s_next_id
  /\ call.id \notin DOMAIN m_order_metadata
  /\ DOMAIN m_order_metadata # {}

(* C12: modify_order(id, q) on a resting order returns true, sets that      *)
(* order's remaining quantity to q and keeps its position in the queue of   *)
(* its price level; nothing else changes.  A market order of the opposing   *)
(* side submitted next fills an order behind it at that tick only after the *)
(* modified order has been filled in full.                                  *)
BookSideOf(B, id) ==
  IF \E p \in Ticks : id \in RestingIds(B.m_bids, p) THEN "bid" ELSE "ask"
TickOf(B, id) ==
  CHOOSE p \in Ticks : id \in RestingIds(SideLevels(B, BookSideOf(B, id)), p)
PositionOf(queue, id) == CHOOSE i \in 1..Len(queue) : queue[i].id = id
OpposingSide(bs) == IF bs = "bid" THEN "sell" ELSE "buy"

C12_ModifyKeepsQueuePosition ==
  [][(call'.op = "modify_order" /\ call'.id \in AllRestingIds(Book)) =>
       LET bs == BookSideOf(Book, call'.id)
           p == TickOf(Book, call'.id)
           before == Resting(SideLevels(Book, bs), p)
           after == Resting(SideLevels(Book', bs), p)
           pos == PositionOf(before, call'.id)
       IN /\ call'.ok
          /\ ~crashed'
          /\ Len(after) = Len(before)
          /\ \A i \in 1..Len(before) :
               after[i] = IF i = pos THEN [before[i] EXCEPT !.quantity = call'.qty]
                          ELSE before[i]
          /\ \A u \in Ticks \ {p} : SideLevels(Book', bs)[u] = SideLevels(Book, bs)[u]
          /\ SideLevels(Book', OwnBookSide(OpposingSide(bs)))
               = SideLevels(Book, OwnBookSide(OpposingSide(bs)))
          /\ UNCHANGED <<m_active_bids, m_active_asks, m_best_bid, m_best_ask,
                          m_order_metadata, s_next_id>>
          /\ \A q \in QtyInputs :
               \A r \in market_order(Book', q, OpposingSide(bs)) :
                 \A k \in 1..Len(r.trades) :
                   (/\ r.trades[k].price = p
                    /\ \E i \in (pos + 1)..Len(after) : after[i].id = r.trades[k].id)
                     => FilledInFullBefore(r.trades, k, call'.id)
    ]_vars

\* C12 witness: the order at the head of a queue was modified to a larger quantity than the order behind it
C12_Witness ==
  /\ Returned("modify_order")
  /\ call.ok
  /\ call.qty = MaxQty
  /\ \E bs \in BookSides, p \in Ticks :
       LET queue == Resting(SideLevels(Book, bs), p) IN
       /\ Len(queue) >= 2
       /\ queue[1].id = call.id
       /\ queue[1].quantity = call.qty
       /\ queue[2].quantity > 0
       /\ queue[2].quantity < call.qty

(* C13: delete_order(id) on a resting order returns true; afterwards no     *)
(* order with that identifier is in any queue, its registry entry is gone,  *)
(* the queue at its tick is the old queue without it (an only order leaves  *)
(* the level empty), and modify_order and delete_order of that identifier   *)
(* return false.  An identifier that has left the queues and the registry   *)
(* never comes back, so every later call on it is refused as well.          *)
Gone(B, id) == id \notin AllRestingIds(B) /\ id \notin DOMAIN B.m_order_metadata

C13_DeleteRemovesOrder ==
  [][/\ (call'.op = "delete_order" /\ call'.id \in AllRestingIds(Book)) =>
          LET bs == BookSideOf(Book, call'.id)
              p == TickOf(Book, call'.id)
              before == Resting(SideLevels(Book, bs), p)
              after == Resting(SideLevels(Book', bs), p)
              pos == PositionOf(before, call'.id)
          IN /\ call'.ok
             /\ ~crashed'
             /\ Gone(Book', call'.id)
             /\ after = SubSeq(before, 1, pos - 1) \o SubSeq(before, pos + 1, Len(before))
             /\ Len(before) = 1 => PriceLevel_empty(SideLevels(Book', bs)[p])
             /\ ~delete_order(Book', call'.id).ok
             /\ \A q \in QtyInputs : ~modify_order(Book', call'.id, q).ok
     /\ \A id \in 1..s_next_id : Gone(Book, id) => Gone(Book', id)
    ]_vars

\* C13 witness: an order was deleted from a book that still holds other orders
C13_Witness ==
  /\ Returned("delete_order")
  /\ call.ok
  /\ Gone(Book, call.id)
  /\ HoldsOrders(m_bids)
  /\ HoldsOrders(m_asks)

(* C14: add/cancel round trip.  From any reachable state, add_order(q, t,   *)
(* side) with t in range followed at once by delete_order of the new        *)
(* order's identifier gives back the active-tick sets and the cached best   *)
(* bid and best ask of the state before the add.                            *)
AddThenCancel(B, qty, price_cents, side) ==
  LET added == add_order(B, qty, price_cents, side)
  IN delete_order(added, added.s_next_id)

C14_AddCancelRoundTrip ==
  Quiescent =>
    \A qty \in 1..MaxQty, price_cents \in Ticks, side \in BookSides :
      LET r == AddThenCancel(Book, qty, price_cents, side) IN
      /\ r.ok
      /\ r.B.m_active_bids = m_active_bids
      /\ r.B.m_active_asks = m_active_asks
      /\ r.B.m_best_bid = m_best_bid
      /\ r.B.m_best_ask = m_best_ask

(* C15: best_quote(bid) returns the highest tick at which a bid order rests *)
(* and best_quote(ask) the lowest tick at which an ask order rests, in      *)
(* every state the operations lead to; it returns -1 exactly when the side  *)
(* holds no resting order.                                                  *)
TicksHeld(levels) == {p \in Ticks : Len(Resting(levels, p)) > 0}

C15_BestQuote ==
  Returned("best_quote") =>
    LET held == TicksHeld(SideLevels(Book, call.side)) IN
    /\ (call.quote = -1) <=> (held = {})
    /\ held # {} =>
         /\ call.quote \in held
         /\ \A p \in held : IF call.side = "bid" THEN p <= call.quote
                                                 ELSE p >= call.quote

\* C15 witness: best_quote answered on a side whose cached best is stale after a cancel
C15_Witness ==
  /\ Returned("best_quote")
  /\ call.quote # -1
  /\ call.quote # SideState(Book, call.side).best
  /\ TicksHeld(SideLevels(Book, call.side)) # SideState(Book, call.side).active

(* C16: add_order(q, t, side) with t outside [MIN_PRICE_CENTS,              *)
(* MAX_PRICE_CENTS] is refused: no order is inserted and the queues, the    *)
(* active-tick sets, the cached bests, the registry and the identifier      *)
(* counter are unchanged.                                                   *)
C16_AddOutOfRangeRejected ==
  [][(call'.op = "add_order" /\ call'.price \notin Ticks) =>
       /\ Book' = Book
       /\ ~crashed'
    ]_vars

\* C16 witness: an add_order of positive quantity beyond the grid returned on a book holding orders on both sides
C16_Witness ==
  /\ Returned("add_order")
  /\ call.price \notin Ticks
  /\ call.qty > 0
  /\ HoldsOrders(m_bids)
  /\ HoldsOrders(m_asks)

(* C17: a limit handle_order whose limit tick lies outside                  *)
(* [MIN_PRICE_CENTS, MAX_PRICE_CENTS] is refused as a whole: it fills       *)
(* nothing, returns (0, 0) and leaves both sides, the cached bests and the  *)
(* registry unchanged.  Stated for calls of positive quantity that return,  *)
(* on a book whose resting orders all have positive quantity.               *)
C17_LimitOutOfRangeRejected ==
  [][(call'.op = "handle_order" /\ call'.type = "limit" /\ call'.price \notin Ticks
        /\ call'.qty > 0 /\ QuantitiesPositive(Book) /\ ~crashed') =>
       /\ call'.units = 0
       /\ call'.value = 0
       /\ call'.trades = <<>>
       /\ Book' = Book
    ]_vars

(* C18: an add_order or handle_order call with quantity <= 0 is refused:    *)
(* nothing is inserted, nothing is filled and the engine state is           *)
(* unchanged.                                                               *)
C18_NonPositiveQuantityRejected ==
  [][(call'.op \in {"add_order", "handle_order"} /\ call'.qty <= 0) =>
       /\ call'.units = 0
       /\ call'.value = 0
       /\ Book' = Book
       /\ ~crashed'
    ]_vars

(* C19: order identifiers are unique and monotonic.  Every order that comes *)
(* to rest, through add_order or as the residual of a limit order, carries  *)
(* an identifier greater than every identifier issued before it, the first  *)
(* being 1; an identifier is not issued again after its order was cancelled *)
(* or filled; no two resting orders share an identifier, and the registry   *)
(* holds issued identifiers only.                                           *)
RECURSIVE CountUpTo(_, _)
CountUpTo(levels, p) ==
  IF p < MIN_PRICE_CENTS THEN 0
  ELSE Len(Resting(levels, p)) + CountUpTo(levels, p - 1)

RestingCount(B) ==
  CountUpTo(B.m_bids, MAX_PRICE_CENTS) + CountUpTo(B.m_asks, MAX_PRICE_CENTS)

C20_GetterHoldsOneLevel ==
  [][(call'.op = "add_order" /\ call'.price \in Ticks /\ call'.qty > 0
        /\ ~HoldsOrders(m_bids) /\ ~HoldsOrders(m_asks)) =>
       LET container == IF call'.side = "bid" THEN get_bids(Book') ELSE get_asks(Book')
       IN /\ vector_size(container) = 1
          /\ PriceLevel_size(vector_at(container, call'.price)) = 1
          /\ PriceLevel_index(vector_at(container, call'.price), 0).quantity = call'.qty
          /\ PriceLevel_index(vector_at(container, call'.price), 0).price_cents = call'.price
    ]_vars

\* ---- helpers of C21..C30
PublicOperations == {"add_order", "handle_order", "modify_order", "delete_order"}
AfterPublicOperation == ~crashed /\ call.op \in PublicOperations

(* C21: active-tick invariant.  After every public operation and for each   *)
(* side, a tick is in the side's active-tick set if and only if the queue   *)
(* at that tick on that side is not empty.                                  *)
C21_ActiveTickInvariant ==
  AfterPublicOperation =>
    \A bs \in BookSides :
      \A t \in Ticks :
        (t \in SideState(Book, bs).active) <=> (Len(Resting(SideLevels(Book, bs), t)) > 0)

(* C22: cached-best invariant.  After every public operation m_best_bid is  *)
(* the maximum of the bid active-tick set, or 0 when that set is empty, and *)
(* m_best_ask is the minimum of the ask active-tick set, or                 *)
(* MAX_PRICE_CENTS + 1 when that set is empty.                              *)
C22_CachedBestInvariant ==
  AfterPublicOperation =>
    /\ m_best_bid = IF m_active_bids = {} THEN 0 ELSE SetMax(m_active_bids)
    /\ m_best_ask = IF m_active_asks = {} THEN MAX_PRICE_CENTS + 1
                    ELSE SetMin(m_active_asks)

\* C22 witness: a call drained the best tick of the opposite side and other active ticks remain there
C22_Witness ==
  /\ Returned("handle_order")
  /\ \E k \in 1..Len(call.trades) :
       /\ call.trades[k].full
       /\ call.trades[k].qty > 0
       /\ call.trades[k].price \notin SideState(Book, OppositeBookSide(call.side)).active
       /\ SideState(Book, OppositeBookSide(call.side)).active # {}

(* C23: ID-registry invariant.  After every public operation an identifier  *)
(* is a key of the registry with value (side, tick) if and only if exactly  *)
(* one live record with that identifier is in the queue of that side at     *)
(* that tick, and it is in no other queue.  Entries appear on add, go on    *)
(* cancel and on full fill, and are untouched by partial fill and modify.   *)
Occurrences(B, bs, p, id) ==
  Cardinality({i \in 1..Len(Resting(SideLevels(B, bs), p)) :
                 Resting(SideLevels(B, bs), p)[i].id = id})

RegistryMatchesQueues(B) ==
  \A id \in IdInputs :
    \A bs \in BookSides :
      \A p \in Ticks :
        Occurrences(B, bs, p, id) =
          IF id \in DOMAIN B.m_order_metadata
               /\ B.m_order_metadata[id] = [side |-> bs, price_cents |-> p]
          THEN 1 ELSE 0

C23_RegistryInvariant ==
  [][(call'.op \in PublicOperations /\ ~crashed') =>
       /\ RegistryMatchesQueues(Book')
       /\ call'.op = "modify_order" => m_order_metadata' = m_order_metadata
       /\ (call'.op = "delete_order" /\ call'.ok) =>
            /\ call'.id \in DOMAIN m_order_metadata
            /\ m_order_metadata' = MetaErase(m_order_metadata, call'.id)
       /\ call'.op = "add_order" =>
            \/ m_order_metadata' = m_order_metadata
            \/ m_order_metadata' =
                 MetaPut(m_order_metadata, s_next_id', call'.side, call'.price)
       /\ call'.op = "handle_order" =>
            \A k \in 1..Len(call'.trades) :
              LET t == call'.trades[k] IN
              /\ t.id \in DOMAIN m_order_metadata
              /\ t.full => t.id \notin DOMAIN m_order_metadata'
              /\ ~t.full =>
                   /\ t.id \in DOMAIN m_order_metadata'
                   /\ m_order_metadata'[t.id] = m_order_metadata[t.id]
    ]_vars

\* C23 witness: one call filled an order in full and the next in part while the initiator's side holds orders
C23_Witness ==
  /\ Returned("handle_order")
  /\ \E j, k \in 1..Len(call.trades) :
       /\ call.trades[j].full
       /\ ~call.trades[k].full
       /\ call.trades[j].id \notin DOMAIN m_order_metadata
       /\ call.trades[k].id \in DOMAIN m_order_metadata
  /\ HoldsOrders(OwnLevels(call.side))

(* C24: partial fill.  When the head order of the level being matched has   *)
(* quantity a greater than the remaining inbound quantity q, exactly q      *)
(* units fill at that tick, the head order is left with a - q at the head   *)
(* of its queue with the orders behind it as they were, its registry entry  *)
(* and its tick's place in the active set are untouched (and, when it is    *)
(* the only fill of the call, the whole active set and the cached best of   *)
(* that side), and the match ends there with inbound residual 0: nothing is *)
(* filled after it and nothing comes to rest.                               *)
RECURSIVE FilledBefore(_, _)
FilledBefore(trades, k) ==
  IF k <= 1 THEN 0 ELSE trades[k - 1].qty + FilledBefore(trades, k - 1)

QuantityOf(queue, id) == queue[PositionOf(queue, id)].quantity

\* the tick a market order visits first, or 0 when the opposite active set is empty
FirstTickVisited(B, side) ==
  IF side = "sell"
  THEN (IF B.m_active_bids = {} THEN 0 ELSE SetMax(B.m_active_bids))
  ELSE (IF B.m_active_asks = {} THEN 0 ELSE SetMin(B.m_active_asks))

C24_PartialFill ==
  [][(call'.op = "handle_order" /\ ~crashed') =>
       LET bs == OppositeBookSide(call'.side)
           trades == call'.trades
           first == FirstTickVisited(Book, call'.side)
       IN /\ \A k \in 1..Len(trades) :
               ~trades[k].full =>
                 LET t == trades[k]
                     before == Resting(SideLevels(Book, bs), t.price)
                     after == Resting(SideLevels(Book', bs), t.price)
                     q == call'.qty - FilledBefore(trades, k)
                 IN /\ t.id \in RestingIds(SideLevels(Book, bs), t.price)
                    /\ QuantityOf(before, t.id) > q
                    /\ t.qty = q
                    /\ k = Len(trades)
                    /\ call'.units = call'.qty
                    /\ Len(after) > 0
                    /\ after[1] = [before[PositionOf(before, t.id)]
                                     EXCEPT !.quantity = @ - q]
                    /\ after[1].quantity > 0
                    /\ Tail(after) = SubSeq(before, PositionOf(before, t.id) + 1, Len(before))
                    /\ t.id \in DOMAIN m_order_metadata'
                    /\ m_order_metadata'[t.id] = m_order_metadata[t.id]
                    /\ (t.price \in SideState(Book', bs).active)
                         <=> (t.price \in SideState(Book, bs).active)
                    /\ k = 1 =>
                         /\ SideState(Book', bs).active = SideState(Book, bs).active
                         /\ SideState(Book', bs).best = SideState(Book, bs).best
                         /\ m_order_metadata' = m_order_metadata
                    /\ NewOrders(Book, Book', "bid") = {}
                    /\ NewOrders(Book, Book', "ask") = {}
          /\ (/\ call'.type = "market"
              /\ call'.qty > 0
              /\ first # 0
              /\ Len(Resting(SideLevels(Book, bs), first)) > 0
              /\ Resting(SideLevels(Book, bs), first)[1].quantity > call'.qty) =>
               /\ Len(trades) = 1
               /\ ~trades[1].full
               /\ trades[1].id = Resting(SideLevels(Book, bs), first)[1].id
    ]_vars

\* C24 witness: a limit order filled one order in full and the next in part, with another order behind it
C24_Witness ==
  /\ Returned("handle_order")
  /\ call.type = "limit"
  /\ Len(call.trades) = 2
  /\ call.trades[1].full
  /\ ~call.trades[2].full
  /\ call.trades[1].qty > 0

(* C25: full fill.  When the head order of the level being matched has      *)
(* quantity a <= remaining inbound quantity q, exactly a units fill at that *)
(* tick and that order, under its own identifier, leaves its queue and the  *)
(* registry; no other order's registry entry is removed; its slot goes back *)
(* to the pool.  The pool part is stated for market orders, which take no   *)
(* slot themselves: available() grows by the number of orders filled in     *)
(* full.                                                                    *)
FullTrades(trades) == {k \in 1..Len(trades) : trades[k].full}

FullFillRemovesOrder ==
  LET bs == OppositeBookSide(call'.side)
      trades == call'.trades
  IN /\ \A k \in FullTrades(trades) :
          LET t == trades[k]
              before == Resting(SideLevels(Book, bs), t.price)
          IN /\ t.id \in RestingIds(SideLevels(Book, bs), t.price)
             /\ QuantityOf(before, t.id) <= call'.qty - FilledBefore(trades, k)
             /\ t.qty = QuantityOf(before, t.id)
             /\ t.id \notin AllRestingIds(Book')
             /\ t.id \notin DOMAIN m_order_metadata'
     /\ \A id \in DOMAIN m_order_metadata :
          id \notin DOMAIN m_order_metadata' => \E k \in FullTrades(trades) : trades[k].id = id
     /\ \A id \in AllRestingIds(Book) :
          id \notin AllRestingIds(Book') => \E k \in FullTrades(trades) : trades[k].id = id

FullFillReleasesSlot ==
  call'.type = "market" =>
    OrderPool_available(m_order_pool')
      = OrderPool_available(m_order_pool) + Cardinality(FullTrades(call'.trades))

C25_FullFill ==
  [][(call'.op = "handle_order" /\ ~crashed' /\ call'.qty > 0 /\ QuantitiesPositive(Book)) =>
       /\ FullFillRemovesOrder
       /\ FullFillReleasesSlot
    ]_vars

(* C30: pool partition.  After any sequence of operations every pool slot   *)
(* is either free (on the free stack, active = false) or in use (off the    *)
(* free stack, active = true), and the slots in use are the resting orders: *)
(* available() = capacity - number of resting orders.                       *)
FreeSlots(pool) == {pool.free_indices_[i] : i \in 1..Len(pool.free_indices_)}

C30_PoolPartition ==
  AfterPublicOperation =>
    /\ \A i \in DOMAIN m_order_pool.orders_ :
         (i \in FreeSlots(m_order_pool)) <=> ~m_order_pool.orders_[i].active
    /\ OrderPool_available(m_order_pool) = PoolCapacity - RestingCount(Book)

(* C26: best-quote update on depletion.  When a match consumes in full the  *)
(* last order at the best tick of a side (the highest tick holding a bid,   *)
(* the lowest holding an ask), on return that tick is no longer in the      *)
(* active set and the cached best of that side is the next active tick in   *)
(* priority order (next lower for bids, next higher for asks), or the empty *)
(* sentinel (0 for bids, MAX_PRICE_CENTS + 1 for asks) when there is none.  *)
NextActive(active, bs, t) ==
  LET beyond == {u \in active : IF bs = "bid" THEN u < t ELSE u > t}
  IN IF beyond = {} THEN (IF bs = "bid" THEN 0 ELSE MAX_PRICE_CENTS + 1)
     ELSE (IF bs = "bid" THEN SetMax(beyond) ELSE SetMin(beyond))

BestTickDepleted(bs, t) ==
  /\ t # -1
  /\ \E k \in 1..Len(call'.trades) :
       call'.trades[k].price = t /\ call'.trades[k].full /\ call'.trades[k].qty > 0
  /\ Len(Resting(SideLevels(Book', bs), t)) = 0

BestMovesToNextActive(bs, t) ==
  /\ t \notin SideState(Book', bs).active
  /\ SideState(Book', bs).best = NextActive(SideState(Book', bs).active, bs, t)

C26_BestUpdateOnDepletion ==
  [][(call'.op = "handle_order" /\ ~crashed' /\ call'.qty > 0 /\ QuantitiesPositive(Book)) =>
       LET bs == OppositeBookSide(call'.side)
           t == best_quote(Book, bs)
       IN BestTickDepleted(bs, t) => BestMovesToNextActive(bs, t)
    ]_vars

(* C27: modify_order changes nothing but the target order's quantity.  The  *)
(* order's side, tick and queue position, every other order, both active   *)
(* sets, both cached bests, the registry and the identifier counter are     *)
(* unchanged; a modify_order to the order's current quantity, and one that  *)
(* returns false, leave the whole state unchanged.                          *)
SameButQuantityOf(L0, L1, id) ==
  /\ L1.head = L0.head
  /\ Len(L1.orders) = Len(L0.orders)
  /\ \A i \in 1..Len(L0.orders) :
       IF L0.orders[i].id = id /\ i > L0.head
       THEN /\ L1.orders[i].id = L0.orders[i].id
            /\ L1.orders[i].price_cents = L0.orders[i].price_cents
       ELSE L1.orders[i] = L0.orders[i]

C27_ModifyFrame ==
  [][call'.op = "modify_order" =>
       /\ ~crashed'
       /\ UNCHANGED <<m_active_bids, m_active_asks, m_best_bid, m_best_ask,
                       m_order_metadata, s_next_id, m_order_pool>>
       /\ \A p \in Ticks :
            /\ SameButQuantityOf(m_bids[p], m_bids'[p], call'.id)
            /\ SameButQuantityOf(m_asks[p], m_asks'[p], call'.id)
       /\ ~call'.ok => Book' = Book
       /\ (/\ call'.id \in AllRestingIds(Book)
           /\ call'.qty = QuantityOf(Resting(SideLevels(Book, BookSideOf(Book, call'.id)),
                                              TickOf(Book, call'.id)), call'.id)) =>
            Book' = Book
    ]_vars

\* C27 witness: an order was modified to a positive quantity while other orders rest on both sides
C27_Witness ==
  /\ Returned("modify_order")
  /\ call.ok
  /\ call.qty > 0
  /\ HoldsOrders(m_bids)
  /\ HoldsOrders(m_asks)
  /\ RestingCount(Book) >= 3

(* C28: cancelling an order at any position of a price-level queue (head,   *)
(* interior or tail, also when the head cursor has advanced past earlier    *)
(* fills) removes exactly that order and keeps the relative order of the    *)
(* other live orders at that tick; the head cursor and every other level    *)
(* are untouched, and a market order submitted next fills the survivors at  *)
(* that tick in their original order.                                       *)
RECURSIVE TradesAt(_, _)
TradesAt(trades, p) ==
  IF trades = <<>> THEN <<>>
  ELSE IF Head(trades).price = p THEN <<Head(trades)>> \o TradesAt(Tail(trades), p)
       ELSE TradesAt(Tail(trades), p)

C28_CancelPreservesOrder ==
  [][(call'.op = "delete_order" /\ call'.id \in AllRestingIds(Book)) =>
       LET bs == BookSideOf(Book, call'.id)
           p == TickOf(Book, call'.id)
           before == Resting(SideLevels(Book, bs), p)
           after == Resting(SideLevels(Book', bs), p)
           pos == PositionOf(before, call'.id)
       IN /\ call'.ok
          /\ SideLevels(Book', bs)[p].head = SideLevels(Book, bs)[p].head
          /\ Len(after) = Len(before) - 1
          /\ \A i \in 1..Len(after) :
               after[i] = IF i < pos THEN before[i] ELSE before[i + 1]
          /\ \A u \in Ticks \ {p} : SideLevels(Book', bs)[u] = SideLevels(Book, bs)[u]
          /\ SideLevels(Book', OwnBookSide(OpposingSide(bs)))
               = SideLevels(Book, OwnBookSide(OpposingSide(bs)))
          /\ \A q \in QtyInputs :
               \A r \in market_order(Book', q, OpposingSide(bs)) :
                 LET filled == TradesAt(r.trades, p) IN
                 /\ Len(filled) <= Len(after)
                 /\ \A i \in 1..Len(filled) : filled[i].id = after[i].id
    ]_vars

\* C28 witness: an order was cancelled from a level whose head cursor had advanced, and a survivor rests there
C28_Witness ==
  /\ Returned("delete_order")
  /\ call.ok
  /\ call.price \in Ticks
  /\ SideLevels(Book, call.side)[call.price].head >= 1
  /\ Len(Resting(SideLevels(Book, call.side), call.price)) >= 1

(* C29: every record resident in a price-level queue has quantity strictly  *)
(* greater than 0 after every public operation.                             *)
C29_RestingQuantitiesPositive ==
  AfterPublicOperation => QuantitiesPositive(Book)

(* C31: quantity conservation.  For every handle_order call that returns,   *)
(* the total quantity resting on the opposite side decreases by exactly the *)
(* returned filled quantity F; the total resting on the initiator's side    *)
(* increases by exactly Q - F for a limit order whose tick is in range and  *)
(* by 0 for a market order; and F never exceeds the requested quantity Q.   *)
C31_QuantityConservation ==
  [][(call'.op = "handle_order" /\ ~crashed') =>
       LET own == OwnBookSide(call'.side)
           opp == OppositeBookSide(call'.side)
           Q == call'.qty
           F == call'.units
       IN /\ TotalQty(SideLevels(Book, opp)) - TotalQty(SideLevels(Book', opp)) = F
          /\ F <= Q
          /\ (call'.type = "limit" /\ call'.price \in Ticks) =>
               TotalQty(SideLevels(Book', own)) - TotalQty(SideLevels(Book, own)) = Q - F
          /\ call'.type = "market" =>
               TotalQty(SideLevels(Book', own)) = TotalQty(SideLevels(Book, own))
    ]_vars

\* C31 witness: a limit buy with an in-range tick was filled in part and its residual came to rest
C31_Witness ==
  /\ Returned("handle_order")
  /\ call.type = "limit"
  /\ call.side = "buy"
  /\ call.price \in Ticks
  /\ call.units > 0
  /\ call.units < call.qty
  /\ TotalQty(m_bids) >= call.qty - call.units

\* ------------------------------------- fill accounting at the width of int
(* units_transacted, order_quantity, available_qty and price_cents are int  *)
(* (32-bit two's complement), and the product order_quantity * price_cents  *)
(* is computed in int before it is divided by 100.0.  The steps below apply *)
(* the accounting of one fill to quantities and ticks of the full range,    *)
(* leaving the book out: call.qty is the order_quantity submitted,          *)
(* call.units is units_transacted, call.value the product last computed,    *)
(* call.trades the fills made, call.ok whether every int result so far was  *)
(* representable.  An int result that is not representable is undefined:    *)
(* the build either wraps it or traps.                                      *)
INT_MAX == 2147483647
MAX_PRICE_CENTS_FULL == 200000
MaxFills == 3

FillTicks == {1, 10050, 10100, MAX_PRICE_CENTS_FULL}
FillQuantities == {1, 100, 10737, 10738, 20000, INT_MAX}

\* a + b and a * b are representable in int, for a >= 0 and b >= 0
AddFits(a, b) == a <= INT_MAX - b
MulFits(a, b) == b = 0 \/ a <= INT_MAX \div b

\* a + b of two int values, wrapped to 32 bits
WrapAdd(a, b) ==
  IF a > 0 /\ b > INT_MAX - a THEN (a - INT_MAX - 1) + (b - INT_MAX - 1)
  ELSE IF a < 0 /\ b < (-INT_MAX - 1) - a THEN (a + INT_MAX + 1) + (b + INT_MAX + 1)
  ELSE a + b

\* a * b of an int value a and b >= 0, wrapped to 32 bits
RECURSIVE WrapMul(_, _)
WrapMul(a, b) ==
  IF b = 0 THEN 0
  ELSE LET h == WrapMul(a, b \div 2)
           d == WrapAdd(h, h)
       IN IF b % 2 = 1 THEN WrapAdd(d, a) ELSE d

(* One pass of the inner while loop on the accounting locals: the fill is   *)
(* order_quantity when available_qty > order_quantity and available_qty     *)
(* otherwise.  The set holds the outcomes: the exact results when both fit, *)
(* else the wrapped results or the death of the process.                    *)
fill_accounting(order_quantity, units_transacted, available_qty, price_cents) ==
  LET fill_qty == IF available_qty > order_quantity THEN order_quantity
                  ELSE available_qty
      fits == AddFits(units_transacted, fill_qty) /\ MulFits(fill_qty, price_cents)
      exact == [units |-> units_transacted + fill_qty,
                product |-> fill_qty * price_cents,
                fill_qty |-> fill_qty, full |-> ~(available_qty > order_quantity),
                ok |-> TRUE, crashed |-> FALSE]
      wrapped == [units |-> WrapAdd(units_transacted, fill_qty),
                  product |-> WrapMul(fill_qty, price_cents),
                  fill_qty |-> fill_qty, full |-> ~(available_qty > order_quantity),
                  ok |-> FALSE, crashed |-> FALSE]
  IN IF fits THEN {exact} ELSE {wrapped, [wrapped EXCEPT !.crashed = TRUE]}

\* the order_quantity left of call.qty after the fills made
RemainingQuantity == call.qty - FilledBefore(call.trades, Len(call.trades) + 1)

FillSubmit ==
  /\ Quiescent
  /\ \E order_quantity \in FillQuantities :
       call' = [NoCall EXCEPT !.op = "fill", !.qty = order_quantity, !.ok = TRUE]
  /\ UNCHANGED <<m_bids, m_asks, m_active_bids, m_active_asks, m_order_metadata,
                 m_best_bid, m_best_ask, s_next_id, m_order_pool, crashed>>

FillStep ==
  /\ ~crashed
  /\ call.op = "fill"
  /\ call.ok
  /\ Len(call.trades) < MaxFills
  /\ RemainingQuantity > 0
  /\ \E available_qty \in FillQuantities, price_cents \in FillTicks :
       \E r \in fill_accounting(RemainingQuantity, call.units, available_qty, price_cents) :
         /\ crashed' = r.crashed
         /\ call' = [call EXCEPT
                      !.units = r.units, !.value = r.product, !.price = price_cents,
                      !.ok = r.ok,
                      !.trades = Append(@, [id |-> Len(call.trades) + 1,
                                            price |-> price_cents,
                                            qty |-> r.fill_qty, full |-> r.full])]
  /\ UNCHANGED <<m_bids, m_asks, m_active_bids, m_active_asks, m_order_metadata,
                 m_best_bid, m_best_ask, s_next_id, m_order_pool>>

NextFill == FillSubmit \/ FillStep \/ Return

SpecFill == Init /\ [][NextFill]_vars

(* C32: no 32-bit overflow in fill accounting.  For every fill of a         *)
(* positive quantity at a tick in [1, 200000], the product fill_qty * tick  *)
(* computed for the notional and the running total of units transacted stay *)
(* within the range of the signed 32-bit int in which they are computed.    *)
C32_NoOverflowInFillAccounting ==
  call.op = "fill" =>
    \A k \in 1..Len(call.trades) :
      LET t == call.trades[k] IN
      (t.qty > 0 /\ t.price \in 1..MAX_PRICE_CENTS_FULL) =>
        /\ MulFits(t.qty, t.price)
        /\ AddFits(FilledBefore(call.trades, k), t.qty)

\* ------------------------------------------------- the pool used directly
(* acquire and release applied to the pool by a caller that holds handles:  *)
(* call.type is the kind of handle passed to release, call.id its slot      *)
(* index, call.ok the active member read through it; for acquire call.id is *)
(* the slot returned and call.ok whether one was returned.  next_id_ is     *)
(* capped at MaxPoolIds.                                                    *)
MaxPoolIds == 4

Handles ==
  {NullHandle} \cup {SlotHandle(i) : i \in 0..(PoolCapacity - 1)}
    \cup {ForeignHandle(a) : a \in BOOLEAN}

PoolAcquire ==
  /\ Quiescent
  /\ m_order_pool.next_id_ <= MaxPoolIds
  /\ \E qty \in 1..MaxQty, price_cents \in Ticks :
       LET r == OrderPool_acquire(m_order_pool, qty, price_cents) IN
       /\ m_order_pool' = r.pool
       /\ call' = [NoCall EXCEPT !.op = "acquire", !.qty = qty, !.price = price_cents,
                                 !.type = r.order.kind, !.id = r.order.idx,
                                 !.ok = r.order.kind = "slot"]
  /\ UNCHANGED <<m_bids, m_asks, m_active_bids, m_active_asks, m_order_metadata,
                 m_best_bid, m_best_ask, s_next_id, crashed>>

PoolRelease ==
  /\ Quiescent
  /\ \E order \in Handles :
       LET r == OrderPool_release(m_order_pool, order) IN
       /\ m_order_pool' = r.pool
       /\ crashed' = r.aborted
       /\ call' = [NoCall EXCEPT !.op = "release", !.type = order.kind,
                                 !.id = order.idx,
                                 !.ok = HandleActive(m_order_pool, order)]
  /\ UNCHANGED <<m_bids, m_asks, m_active_bids, m_active_asks, m_order_metadata,
                 m_best_bid, m_best_ask, s_next_id>>

NextPool == PoolAcquire \/ PoolRelease \/ Return

SpecPool == Init /\ [][NextPool]_vars

\* how many times idx is on the free stack
TimesFree(pool, idx) ==
  Cardinality({i \in 1..Len(pool.free_indices_) : pool.free_indices_[i] = idx})

(* C33: OrderPool::release called with a handle that was already released   *)
(* (liveness flag false) or that does not point into the pool's backing     *)
(* array aborts the process and is never silently accepted; a valid release *)
(* clears the liveness flag and returns exactly that slot to the free set,  *)
(* once.                                                                    *)
C33_ReleaseFatalOrFreesOnce ==
  [][(call'.op = "release" /\ call'.type # "null") =>
       LET idx == call'.id
           valid == call'.type = "slot" /\ m_order_pool.orders_[idx].active
       IN /\ ~valid => crashed'
          /\ valid =>
               /\ ~crashed'
               /\ ~m_order_pool'.orders_[idx].active
               /\ m_order_pool'.free_indices_ = Append(m_order_pool.free_indices_, idx)
               /\ TimesFree(m_order_pool', idx) = 1
               /\ \A i \in DOMAIN m_order_pool.orders_ \ {idx} :
                    m_order_pool'.orders_[i] = m_order_pool.orders_[i]
    ]_vars

\* the double release alone: the second release of a slot that was acquired and released aborts
DoubleReleaseAborts ==
  [][(/\ call'.op = "release"
      /\ call'.type = "slot"
      /\ ~m_order_pool.orders_[call'.id].active
      /\ m_order_pool.orders_[call'.id].id > 0) => crashed']_vars

\* a release of an active slot frees it once, and a release of an active record outside the pool aborts
ActiveReleaseAsStated ==
  [][(call'.op = "release" /\ call'.ok) =>
       LET idx == call'.id IN
       IF call'.type = "slot"
       THEN /\ ~crashed'
            /\ ~m_order_pool'.orders_[idx].active
            /\ m_order_pool'.free_indices_ = Append(m_order_pool.free_indices_, idx)
            /\ TimesFree(m_order_pool', idx) = 1
       ELSE crashed' /\ m_order_pool' = m_order_pool
    ]_vars

\* no slot is ever on the free stack twice
NoSlotFreeTwice ==
  \A i \in DOMAIN m_order_pool.orders_ : TimesFree(m_order_pool, i) <= 1

====
